---- MODULE Spec2Model ----
(***************************************************************************)
(* A model of the MoMo SMS ETL pipeline (src/etl/sms_processor.py): the    *)
(* MomoSmsProcessor object, its extractor, categorizer, dead-letter sink,  *)
(* persistence and the process() run.                                      *)
(*                                                                         *)
(* Text is modelled as TLA+ strings, character by character: substring     *)
(* tests, lower-casing and the regular expressions are computed on the     *)
(* characters as Python computes them.  Amounts (Python floats) are        *)
(* modelled as integers in units of 1/AmountScale.                         *)
(***************************************************************************)
EXTENDS Integers, Sequences, FiniteSets, TLC

\* ------------------------------------------------------------------ text

\* The character of s at position i (1-based), "" outside the string.
Ch(s, i) == IF i >= 1 /\ i <= Len(s) THEN SubSeq(s, i, i) ELSE ""

\* str.lower() on the ASCII letters.
ToLower ==
  [A |-> "a", B |-> "b", C |-> "c", D |-> "d", E |-> "e", F |-> "f",
   G |-> "g", H |-> "h", I |-> "i", J |-> "j", K |-> "k", L |-> "l",
   M |-> "m", N |-> "n", O |-> "o", P |-> "p", Q |-> "q", R |-> "r",
   S |-> "s", T |-> "t", U |-> "u", V |-> "v", W |-> "w", X |-> "x",
   Y |-> "y", Z |-> "z"]

LowerChar(c) == IF c \in DOMAIN ToLower THEN ToLower[c] ELSE c

\* The characters i..j of s in lower case, by halves.
RECURSIVE LowerFrom(_, _, _)
LowerFrom(s, i, j) ==
  IF i > j THEN ""
  ELSE IF i = j THEN LowerChar(Ch(s, i))
  ELSE LET mid == (i + j) \div 2
       IN LowerFrom(s, i, mid) \o LowerFrom(s, mid + 1, j)

Lower(s) == LowerFrom(s, 1, Len(s))

\* Python's `kw in s` on strings.
Contains(s, kw) ==
  \E i \in 1..(Len(s) - Len(kw) + 1) : SubSeq(s, i, i + Len(kw) - 1) = kw

\* any(keyword in s for keyword in keywords), keywords a sequence.
AnyKeywordIn(keywords, s) ==
  \E k \in 1..Len(keywords) : Contains(s, keywords[k])

\* ------------------------------------------------- regular expressions

Digits == {"0", "1", "2", "3", "4", "5", "6", "7", "8", "9"}
SpaceChars == {" ", "\t", "\n", "\r", "\f"}
\* [\d,.]
NumChars == Digits \cup {",", "."}
\* [:\s]
ColonSpaceChars == SpaceChars \cup {":"}
\* [\d\s]
DigitSpaceChars == Digits \cup SpaceChars
\* \w, as seen on text that re.IGNORECASE matching has case-folded
WordCharsLower ==
  Digits \cup {"_"} \cup {ToLower[c] : c \in DOMAIN ToLower}
\* \w on raw text
WordChars == WordCharsLower \cup DOMAIN ToLower

\* Pattern elements: a literal, an ordered alternation of literals, and a
\* greedy repetition of a character class, capturing or not.
Lit(v) == [t |-> "lit", alts |-> <<v>>, set |-> {}, min |-> 0, cap |-> FALSE]
Alt(vs) == [t |-> "lit", alts |-> vs, set |-> {}, min |-> 0, cap |-> FALSE]
Rep(set, min) == [t |-> "rep", alts |-> <<>>, set |-> set, min |-> min, cap |-> FALSE]
Group(set, min) == [t |-> "rep", alts |-> <<>>, set |-> set, min |-> min, cap |-> TRUE]

NoMatch == [ok |-> FALSE, s |-> 0, e |-> 0, gs |-> 0, ge |-> 0]

\* Length of the maximal run of characters of `set` in txt from position i.
RECURSIVE RunLen(_, _, _)
RunLen(txt, set, i) ==
  IF Ch(txt, i) \in set THEN 1 + RunLen(txt, set, i + 1) ELSE 0

\* Backtracking match of pat[k..] at position i of txt, as re does it:
\* alternatives in order, repetitions longest first.  g is the group so far.
RECURSIVE MatchFrom(_, _, _, _, _)
RECURSIVE TryAlts(_, _, _, _, _, _)
RECURSIVE TryLen(_, _, _, _, _, _)

MatchFrom(txt, pat, k, i, g) ==
  IF k > Len(pat)
  THEN [ok |-> TRUE, s |-> 0, e |-> i - 1, gs |-> g[1], ge |-> g[2]]
  ELSE IF pat[k].t = "lit"
       THEN TryAlts(txt, pat, k, i, g, 1)
       ELSE TryLen(txt, pat, k, i, g, RunLen(txt, pat[k].set, i))

\* The first attempt when it matched, the next one otherwise.
OrElse(r, next) == IF r.ok THEN r ELSE next

TryAlts(txt, pat, k, i, g, a) ==
  IF a > Len(pat[k].alts)
  THEN NoMatch
  ELSE LET v == pat[k].alts[a]
       IN OrElse(IF i + Len(v) - 1 <= Len(txt) /\ SubSeq(txt, i, i + Len(v) - 1) = v
                 THEN MatchFrom(txt, pat, k + 1, i + Len(v), g)
                 ELSE NoMatch,
                 TryAlts(txt, pat, k, i, g, a + 1))

TryLen(txt, pat, k, i, g, n) ==
  IF n < pat[k].min
  THEN NoMatch
  ELSE OrElse(MatchFrom(txt, pat, k + 1, i + n,
                        IF pat[k].cap THEN <<i, i + n - 1>> ELSE g),
              TryLen(txt, pat, k, i, g, n - 1))

\* A match that started at position i.
StartedAt(r, i) == [r EXCEPT !.s = i]

\* Mutant: the match at the rightmost position that has one.
SearchFrom_Rightmost(txt, pat, i) ==
  LET starts == {j \in i..(Len(txt) + 1) : MatchFrom(txt, pat, 1, j, <<0, 0>>).ok}
  IN IF starts = {}
     THEN NoMatch
     ELSE LET last == CHOOSE j \in starts : \A l \in starts : j >= l
          IN StartedAt(MatchFrom(txt, pat, 1, last, <<0, 0>>), last)

\* re.search: the match at the leftmost position that has one.
SearchFrom(txt, pat, i) ==
  LET starts == {j \in i..(Len(txt) + 1) : MatchFrom(txt, pat, 1, j, <<0, 0>>).ok}
  IN IF starts = {}
     THEN NoMatch
     ELSE LET first == CHOOSE j \in starts : \A l \in starts : j <= l
          IN StartedAt(MatchFrom(txt, pat, 1, first, <<0, 0>>), first)

\* re.search(pattern, body, re.IGNORECASE), the pattern's literals in lower case.
SearchIgnoreCase(pat, body) == SearchFrom(Lower(body), pat, 1)
\* re.search(pattern, body)
Search(pat, body) == SearchFrom(body, pat, 1)

\* match.group(1) and match.group() of a match on body.
GroupOf(body, m) == SubSeq(body, m.gs, m.ge)
WholeOf(body, m) == SubSeq(body, m.s, m.e)

\* ------------------------------------------------------------ messages

\* A message record as read_xml hands it over (xmltodict): a mapping of the
\* <sms> element's attributes (kind "dict"), None for an empty element
\* (kind "none"), or the element's text (kind "str", the text in `body`).
\* A mapping's '@body' may be absent (hasBody FALSE) and, for callers other
\* than read_xml, a value that is not text (bodyIsText FALSE).
DictMsg(body, hasDate, date) ==
  [kind |-> "dict", hasBody |-> TRUE, bodyIsText |-> TRUE, body |-> body,
   hasDate |-> hasDate, date |-> date]
NoBodyMsg(hasDate, date) ==
  [kind |-> "dict", hasBody |-> FALSE, bodyIsText |-> FALSE, body |-> "",
   hasDate |-> hasDate, date |-> date]
NonTextBodyMsg ==
  [kind |-> "dict", hasBody |-> TRUE, bodyIsText |-> FALSE, body |-> "",
   hasDate |-> FALSE, date |-> ""]
NoneMsg ==
  [kind |-> "none", hasBody |-> FALSE, bodyIsText |-> FALSE, body |-> "",
   hasDate |-> FALSE, date |-> ""]
StrMsg(text) ==
  [kind |-> "str", hasBody |-> FALSE, bodyIsText |-> FALSE, body |-> text,
   hasDate |-> FALSE, date |-> ""]

\* Python's None and a present value, for the optional fields.
None == [some |-> FALSE, v |-> ""]
Some(v) == [some |-> TRUE, v |-> v]

\* ----------------------------------------------------- keyword tables

CASH_IN_KEYWORDS == <<"received", "cash in", "payment received", "paid">>
CASH_OUT_KEYWORDS == <<"withdrew", "cash out", "paid", "payment">>

\* The CATEGORIES dict, in its insertion order.
CATEGORIES ==
  << [name |-> "bills", keywords |-> <<"bill", "dstv", "electricity", "water", "utility">>],
     [name |-> "shopping", keywords |-> <<"shop", "store", "market", "mall", "purchase">>],
     [name |-> "food", keywords |-> <<"food", "restaurant", "cafe", "meal", "grocery">>],
     [name |-> "transport", keywords |-> <<"transport", "uber", "taxi", "fare", "ride">>],
     [name |-> "entertainment", keywords |-> <<"entertainment", "movie", "cinema", "game", "ticket">>],
     [name |-> "education", keywords |-> <<"school", "tuition", "fee", "education", "college">>],
     [name |-> "health", keywords |-> <<"health", "hospital", "medical", "pharmacy", "doctor">>],
     [name |-> "transfer", keywords |-> <<"transfer", "sent to", "received from">>],
     [name |-> "airtime", keywords |-> <<"airtime", "data", "bundle", "credit", "recharge">>],
     [name |-> "withdrawal", keywords |-> <<"withdraw", "atm", "agent", "cash out">>],
     [name |-> "deposit", keywords |-> <<"deposit", "cash in", "load">>],
     [name |-> "salary", keywords |-> <<"salary", "payroll", "wage", "income">>],
     [name |-> "savings", keywords |-> <<"save", "savings", "investment">>],
     [name |-> "loan", keywords |-> <<"loan", "borrow", "credit", "debt">>],
     [name |-> "other", keywords |-> <<>>] >>

momo_indicators ==
  <<"momo", "mobile money", "transaction", "received", "sent", "cash in",
    "cash out", "withdraw", "deposit">>

\* ---------------------------------------------------------- categorizer

\* for category, keywords in CATEGORIES.items(): the first category, from
\* position k on, one of whose keywords occurs in the description.
RECURSIVE CategorizeFrom(_, _)

\* Mutant: the fallback is returned from inside the loop, after the first
\* category that does not match.
CategorizeFrom_EarlyOther(description, k) ==
  IF k > Len(CATEGORIES)
  THEN "other"
  ELSE IF AnyKeywordIn(CATEGORIES[k].keywords, description)
       THEN CATEGORIES[k].name
       ELSE "other"

\* Mutant: the last matching category wins instead of the first.
CategorizeFrom_LastMatch(description, k) ==
  LET hits == {j \in k..Len(CATEGORIES) :
                 AnyKeywordIn(CATEGORIES[j].keywords, description)}
  IN IF hits = {} THEN "other"
     ELSE CATEGORIES[CHOOSE j \in hits : \A i \in hits : i <= j].name

CategorizeFrom(description, k) ==
  IF k > Len(CATEGORIES)
  THEN "other"
  ELSE IF AnyKeywordIn(CATEGORIES[k].keywords, description)
       THEN CATEGORIES[k].name
       ELSE CategorizeFrom(description, k + 1)

categorize_transaction(description) == CategorizeFrom(description, 1)

\* -------------------------------------------------------------- amounts

\* Amounts are floats in the code; here integers in units of 1/AmountScale
\* (two decimal places, which the inputs of the model never exceed).
AmountScale == 10 * 10

DigitVal(c) == CHOOSE d \in 0..9 : Ch("0123456789", d + 1) = c

\* amount_str.replace(',', '')
RECURSIVE StripCommasFrom(_, _)
StripCommasFrom(s, i) ==
  IF i > Len(s) THEN ""
  ELSE (IF Ch(s, i) = "," THEN "" ELSE Ch(s, i)) \o StripCommasFrom(s, i + 1)
StripCommas(s) == StripCommasFrom(s, 1)

CountChar(s, c) == Cardinality({i \in 1..Len(s) : Ch(s, i) = c})

\* Whether float(s) returns rather than raising ValueError, for s made of
\* digits and dots: at least one digit and at most one dot.
FloatParses(s) ==
  /\ \A i \in 1..Len(s) : Ch(s, i) \in Digits \cup {"."}
  /\ CountChar(s, ".") <= 1
  /\ \E i \in 1..Len(s) : Ch(s, i) \in Digits

\* The integer the digits s[i..j] spell (0 for none).
RECURSIVE DigitsValue(_, _, _)
DigitsValue(s, i, j) ==
  IF j < i THEN 0 ELSE DigitsValue(s, i, j - 1) * 10 + DigitVal(Ch(s, j))

\* Mutant: the number is read in thousands.
FloatValue_Thousands(s) == DigitsValue(s, 1, Len(s)) \div 10

\* float(s) in units of 1/AmountScale, for s that FloatParses.
FloatValue(s) ==
  LET dots == {i \in 1..Len(s) : Ch(s, i) = "."}
      dot == IF dots = {} THEN Len(s) + 1 ELSE CHOOSE i \in dots : TRUE
      f1 == IF dot + 1 <= Len(s) THEN DigitVal(Ch(s, dot + 1)) ELSE 0
      f2 == IF dot + 2 <= Len(s) THEN DigitVal(Ch(s, dot + 2)) ELSE 0
  IN DigitsValue(s, 1, dot - 1) * AmountScale + f1 * 10 + f2

\* The five amount patterns, in list order, literals in lower case for the
\* case-insensitive search.
amount_patterns ==
  << <<Lit("rwf"), Rep(SpaceChars, 0), Group(NumChars, 1)>>,
     <<Group(NumChars, 1), Rep(SpaceChars, 0), Lit("rwf")>>,
     <<Lit("amount"), Rep(ColonSpaceChars, 0), Lit("rwf"), Rep(SpaceChars, 0), Group(NumChars, 1)>>,
     <<Lit("amount"), Rep(ColonSpaceChars, 0), Group(NumChars, 1)>>,
     <<Group(NumChars, 1), Rep(SpaceChars, 0), Lit("francs")>> >>

\* The candidate of pattern k on body: match.group(1).replace(',', ''), and
\* whether the pattern matched at all.
CandidateOf(body, m) ==
  [matched |-> m.ok,
   text |-> IF m.ok THEN StripCommas(GroupOf(body, m)) ELSE ""]
AmountCandidate(body, k) ==
  CandidateOf(body, SearchIgnoreCase(amount_patterns[k], body))

\* The for loop over amount_patterns from pattern k on: the first pattern
\* that matches and whose candidate parses gives the amount (break); a
\* pattern that does not match, or whose candidate raises ValueError, is
\* passed over (continue); amount keeps its initial 0.0 otherwise.
RECURSIVE AmountFrom(_, _)

\* Mutant: a candidate that does not parse ends the chain.
AmountOr_Abort(c, next) ==
  IF c.matched
  THEN (IF FloatParses(c.text) THEN FloatValue(c.text) ELSE 0)
  ELSE next

AmountOr(c, next) ==
  IF c.matched /\ FloatParses(c.text) THEN FloatValue(c.text) ELSE next
\* Mutant: no pattern gave a number and the amount is a marker, not 0.0.
RECURSIVE AmountFrom_NoDefault(_, _)
AmountFrom_NoDefault(body, k) ==
  IF k > Len(amount_patterns)
  THEN -1
  ELSE AmountOr(AmountCandidate(body, k), AmountFrom_NoDefault(body, k + 1))

AmountFrom(body, k) ==
  IF k > Len(amount_patterns)
  THEN 0
  ELSE AmountOr(AmountCandidate(body, k), AmountFrom(body, k + 1))

ExtractAmount(body) == AmountFrom(body, 1)

\* ----------------------------------------------------------------- type

\* Mutant: the CASH_OUT keywords are checked first.
TypeOf_OutFirst(body_lower) ==
  IF AnyKeywordIn(CASH_OUT_KEYWORDS, body_lower) THEN "CASH_OUT"
  ELSE IF AnyKeywordIn(CASH_IN_KEYWORDS, body_lower) THEN "CASH_IN"
  ELSE "OTHER"

\* Mutant: a body without keyword counts as CASH_OUT.
TypeOf_NoOther(body_lower) ==
  IF AnyKeywordIn(CASH_IN_KEYWORDS, body_lower) THEN "CASH_IN" ELSE "CASH_OUT"

TypeOf(body_lower) ==
  IF AnyKeywordIn(CASH_IN_KEYWORDS, body_lower) THEN "CASH_IN"
  ELSE IF AnyKeywordIn(CASH_OUT_KEYWORDS, body_lower) THEN "CASH_OUT"
  ELSE "OTHER"
\* Mutant: the keywords are looked up in the body as it is, not lower-cased.
TransactionType_NoLower(body) == TypeOf(body)

TransactionType(body) == TypeOf(Lower(body))

\* ------------------------------------------------- phone and reference

\* str.strip() of whitespace at both ends.
RECURSIVE StripLeft(_)
StripLeft(s) ==
  IF Len(s) > 0 /\ Ch(s, 1) \in SpaceChars THEN StripLeft(SubSeq(s, 2, Len(s))) ELSE s
RECURSIVE StripRight(_)
StripRight(s) ==
  IF Len(s) > 0 /\ Ch(s, Len(s)) \in SpaceChars
  THEN StripRight(SubSeq(s, 1, Len(s) - 1)) ELSE s
Strip(s) == StripRight(StripLeft(s))

\* r'(?:\+|0)[\d\s]{9,}', case-sensitive
phone_pattern == <<Alt(<<"+", "0">>), Rep(DigitSpaceChars, 9)>>

PhoneOf(body, m) == IF m.ok THEN Some(Strip(WholeOf(body, m))) ELSE None
ExtractPhone(body) == PhoneOf(body, Search(phone_pattern, body))

ref_patterns ==
  << <<Lit("ref"), Rep(ColonSpaceChars, 0), Group(WordCharsLower, 1)>>,
     <<Lit("reference"), Rep(ColonSpaceChars, 0), Group(WordCharsLower, 1)>>,
     <<Lit("id"), Rep(ColonSpaceChars, 0), Group(WordCharsLower, 1)>> >>

RECURSIVE ReferenceFrom(_, _)
ReferenceOr(body, m, next) == IF m.ok THEN Some(GroupOf(body, m)) ELSE next
ReferenceFrom(body, k) ==
  IF k > Len(ref_patterns)
  THEN None
  ELSE ReferenceOr(body, SearchIgnoreCase(ref_patterns[k], body),
                   ReferenceFrom(body, k + 1))

ExtractReference(body) == ReferenceFrom(body, 1)

\* ------------------------------------------------------------ timestamp

\* Whether int(date_str) returns: an optional sign and at least one digit
\* (the inputs of the model hold no blanks or underscores).
IsIntLiteral(s) ==
  LET start == IF Ch(s, 1) \in {"+", "-"} THEN 2 ELSE 1
  IN /\ Len(s) >= start
     /\ \A i \in start..Len(s) : Ch(s, i) \in Digits

\* The digits of an int() literal without its sign and leading zeros.
RECURSIVE StripZeros(_)
StripZeros(s) ==
  IF Len(s) > 1 /\ Ch(s, 1) = "0" THEN StripZeros(SubSeq(s, 2, Len(s))) ELSE s

Magnitude(s) ==
  StripZeros(IF Ch(s, 1) \in {"+", "-"} THEN SubSeq(s, 2, Len(s)) ELSE s)

NumDigits(s) == Len(Magnitude(s))

\* a < b for two decimal numerals without leading zeros.
RECURSIVE DecLess(_, _)
DecLess(a, b) ==
  IF Len(a) # Len(b) THEN Len(a) < Len(b)
  ELSE IF a = "" THEN FALSE
  ELSE IF Ch(a, 1) # Ch(b, 1) THEN DigitVal(Ch(a, 1)) < DigitVal(Ch(b, 1))
  ELSE DecLess(SubSeq(a, 2, Len(a)), SubSeq(b, 2, Len(b)))

\* Milliseconds from which datetime.fromtimestamp(ms / 1000) stops
\* returning a date (year 10000, resp. year 0, local zone UTC) and raises
\* ValueError, and from which it raises OSError or OverflowError instead
\* (the C library cannot break the time down, or time_t overflows).
YearRangeEnd == "253402300800000"
YearRangeEndNegative == "62135510400001"
TimeTEnd == "67768036191676796000"
TimeTEndNegative == "67768040609740804001"

\* The date step of extract_transaction_details:
\*   "clock"     datetime.now(): no '@date', an empty one, one int() rejects
\*               (ValueError), or one whose year is out of range (ValueError)
\*   "timestamp" datetime.fromtimestamp(int(date_str) / 1000)
\*   "raise"     fromtimestamp or the division raises OSError/OverflowError,
\*               which the inner except (ValueError, TypeError) lets pass
DateStep(message) ==
  IF ~message.hasDate \/ message.date = "" THEN "clock"
  ELSE IF ~IsIntLiteral(message.date) THEN "clock"
  ELSE LET negative == Ch(message.date, 1) = "-"
           ms == Magnitude(message.date)
       IN IF DecLess(ms, IF negative THEN YearRangeEndNegative ELSE YearRangeEnd)
          THEN "timestamp"
          ELSE IF DecLess(ms, IF negative THEN TimeTEndNegative ELSE TimeTEnd)
          THEN "clock"
          ELSE "raise"

\* ------------------------------------------------------------ extractor

Failure(error) ==
  [ok |-> FALSE, error |-> error,
   tx |-> [date |-> "", description |-> "", amount |-> 0, type |-> "",
           category |-> "", phone |-> None, reference |-> None,
           processed_date |-> 0]]

\* Mutant: the description is the lower-cased body.
ExtractBody_LowerDescription(message, now) ==
  IF message.kind # "dict" THEN Failure("TypeError")
  ELSE IF ~message.hasBody THEN Failure("KeyError")
  ELSE IF DateStep(message) = "raise" THEN Failure("OSError")
  ELSE IF ~message.bodyIsText THEN Failure("TypeError")
  ELSE [ok |-> TRUE, error |-> "",
        tx |-> [date |-> IF DateStep(message) = "timestamp"
                         THEN message.date ELSE "now",
                description |-> Lower(message.body),
                amount |-> ExtractAmount(message.body),
                type |-> TransactionType(message.body),
                category |-> categorize_transaction(Lower(message.body)),
                phone |-> ExtractPhone(message.body),
                reference |-> ExtractReference(message.body),
                processed_date |-> now]]

\* The try block of extract_transaction_details, at clock time now: the
\* Transaction it returns, or the exception it raises.
ExtractBody(message, now) ==
  IF message.kind # "dict" THEN Failure("TypeError")
  ELSE IF ~message.hasBody THEN Failure("KeyError")
  ELSE IF DateStep(message) = "raise" THEN Failure("OSError")
  ELSE IF ~message.bodyIsText THEN Failure("TypeError")
  ELSE LET body == message.body
           body_lower == Lower(body)
       IN [ok |-> TRUE, error |-> "",
           tx |-> [date |-> IF DateStep(message) = "timestamp"
                            THEN message.date ELSE "now",
                   description |-> body,
                   amount |-> ExtractAmount(body),
                   type |-> TransactionType(body),
                   category |-> categorize_transaction(body_lower),
                   phone |-> ExtractPhone(body),
                   reference |-> ExtractReference(body),
                   processed_date |-> now]]

\* Mutant: every message with a text body counts as a MoMo message.
is_momo_sms_AcceptAll(message) ==
  IF message.kind = "none" THEN "raise"
  ELSE IF message.kind = "str"
       THEN (IF Contains(message.body, "@body") THEN "raise" ELSE "false")
  ELSE IF ~message.hasBody THEN "false"
  ELSE IF ~message.bodyIsText THEN "raise"
  ELSE "true"

\* is_momo_sms: "raise" when it raises (the record is not a mapping and
\* `in` or the subscript fails, or the body has no lower()).
is_momo_sms(message) ==
  IF message.kind = "none" THEN "raise"
  ELSE IF message.kind = "str"
       THEN (IF Contains(message.body, "@body") THEN "raise" ELSE "false")
  ELSE IF ~message.hasBody THEN "false"
  ELSE IF ~message.bodyIsText THEN "raise"
  ELSE IF AnyKeywordIn(momo_indicators, Lower(message.body)) THEN "true"
  ELSE "false"

\* ---------------------------------------------------------------- state

VARIABLES
  pc,                \* position of process(): "idle", "loop", "save", "export",
                     \* "except" (in its except branch), "done" (returned)
  messages,          \* the batch read_xml returned to the current run
  idx,               \* the for loop's position in messages (1-based)
  transactions,      \* self.transactions of the processor object
  produced,          \* per run: what each message led to, <<index, outcome>> in order
  run_error,         \* whether the last run went through the except branch
  exit_status,       \* what main() returned for the last run
  runs,              \* runs started so far
  db_transactions,   \* committed rows of the transactions table
  db_stats,          \* committed rows of the stats table
  dashboard,         \* the dashboard.json export, None-like when never written
  dead_letter_files, \* the dead-letter directory: file timestamp -> content
  sink_calls,        \* every call of save_to_dead_letter, in order
  clock,             \* datetime.now(), in seconds
  arg,               \* the message of a direct call of the extractor / categorizer
  ret,               \* what the direct call returned
  aggregations,      \* calls of calculate_stats in the current run
  api_transactions,  \* sms_api: the module-level list `transactions`
  api_issued,        \* sms_api: <<id, body>> of every 201 response whose
                     \* transaction no DELETE of that id has removed
  api_response       \* sms_api: the response to the last request

vars ==
  <<pc, messages, idx, transactions, produced, run_error, exit_status, runs,
    db_transactions, db_stats, dashboard, dead_letter_files, sink_calls, clock,
    arg, ret, aggregations, api_transactions, api_issued, api_response>>

api_vars == <<api_transactions, api_issued, api_response>>

run_vars ==
  <<pc, messages, idx, transactions, produced, run_error, exit_status, runs,
    db_transactions, db_stats, dashboard, aggregations>>

\* --------------------------------------------------------------- bounds

\* Fragments a body is made of at most.
MaxFrags == 2
\* Messages in a batch at most.
MaxBatch == 2
\* Runs of process() at most.
MaxRuns == 2
\* The clock's last second.
MaxClock == 1
\* Transactions of a direct call of calculate_stats at most.
MaxTxs == 3
\* Transactions in the list of the transactions API at most.
MaxPosts == 3

\* ------------------------------------------------------ dead-letter sink

\* save_to_dead_letter(message, error) at clock time now: the file
\* dead_letter_<now>.json is (over)written with the record; when the write
\* raises (write_ok FALSE) the exception is logged and nothing else happens.
\* `raised` tells whether an exception leaves the function.
\* Mutant: the failed write is not caught.
save_to_dead_letter_uncaught(files, message, error, now, write_ok) ==
  IF write_ok
  THEN [raised |-> FALSE,
        files |-> [t \in DOMAIN files \cup {now} |->
                     IF t = now
                     THEN [message |-> message, error |-> error, timestamp |-> now]
                     ELSE files[t]]]
  ELSE [raised |-> TRUE, files |-> files]

save_to_dead_letter(files, message, error, now, write_ok) ==
  IF write_ok
  THEN [raised |-> FALSE,
        files |-> [t \in DOMAIN files \cup {now} |->
                     IF t = now
                     THEN [message |-> message, error |-> error, timestamp |-> now]
                     ELSE files[t]]]
  ELSE [raised |-> FALSE, files |-> files]

\* extract_transaction_details(message), r being what its try block came
\* to (ExtractBody): `status` is "transaction" (the dict is returned),
\* "none" (None is returned after the except branch handed the message to
\* the sink) or "raised" (an exception leaves the function).
extract_transaction_details(message, r, now, write_ok, files, calls) ==
  LET sink == save_to_dead_letter(files, message, r.error, now, write_ok)
  IN IF r.ok
     THEN [status |-> "transaction", tx |-> r.tx, files |-> files, calls |-> calls]
     ELSE [status |-> IF sink.raised THEN "raised" ELSE "none",
           tx |-> r.tx, files |-> sink.files,
           calls |-> Append(calls, [message |-> message, error |-> r.error,
                                    written |-> write_ok])]

\* --------------------------------------------------------------- floats

\* The amounts are Python floats (IEEE binary64) and the sums over them round.
\* A float of the model is a sign and a magnitude, the magnitude a whole
\* number of units of 2^-UnitExp written in limbs of LimbBits bits, most
\* significant limb first, without leading zero limbs (<<>> is 0.0).  Every
\* float between 2^(MantissaBits - 1 - UnitExp) and the largest sum of the
\* model is such a number, and so is every sum and difference of two of them.
LimbBits == 16
UnitExp == 4 * LimbBits
MantissaBits == 53
Base == 2 ^ LimbBits

Zeros(k) == [i \in 1..k |-> 0]

RECURSIVE Trim(_)
Trim(x) == IF x # <<>> /\ x[1] = 0 THEN Trim(Tail(x)) ELSE x

\* The limbs of a non-negative integer.
RECURSIVE NatOf(_)
NatOf(n) == IF n = 0 THEN <<>> ELSE Append(NatOf(n \div Base), n % Base)

PadTo(x, n) == Zeros(n - Len(x)) \o x

MaxLen(x, y) == IF Len(x) >= Len(y) THEN Len(x) ELSE Len(y)

\* x + y on limbs 1..i of two numbers of the same length, carry coming in.
RECURSIVE AddAt(_, _, _, _)
AddAt(x, y, i, carry) ==
  IF i = 0
  THEN (IF carry = 1 THEN <<1>> ELSE <<>>)
  ELSE Append(AddAt(x, y, i - 1, (x[i] + y[i] + carry) \div Base),
              (x[i] + y[i] + carry) % Base)

AddBits(x, y) ==
  AddAt(PadTo(x, MaxLen(x, y)), PadTo(y, MaxLen(x, y)), MaxLen(x, y), 0)

\* x - y on limbs 1..i, for x >= y, borrow coming in.
RECURSIVE SubAt(_, _, _, _)
SubAt(x, y, i, borrow) ==
  IF i = 0
  THEN <<>>
  ELSE Append(SubAt(x, y, i - 1, IF x[i] - y[i] - borrow < 0 THEN 1 ELSE 0),
              (x[i] - y[i] - borrow + Base) % Base)

SubBits(x, y) == Trim(SubAt(x, PadTo(y, Len(x)), Len(x), 0))

\* x < y for two numbers without leading zero limbs.
LessBits(x, y) ==
  IF Len(x) # Len(y) THEN Len(x) < Len(y)
  ELSE \E i \in 1..Len(x) :
         /\ x[i] < y[i]
         /\ \A j \in 1..(i - 1) : x[j] = y[j]

\* The first i limbs of x times the small number m, carry coming in.
RECURSIVE MulAt(_, _, _, _)
MulAt(x, m, i, carry) ==
  IF i = 0
  THEN (IF carry > 0 THEN <<carry>> ELSE <<>>)
  ELSE Append(MulAt(x, m, i - 1, (x[i] * m + carry) \div Base),
              (x[i] * m + carry) % Base)

\* The first i limbs of x divided by the small number d: quotient and rest.
RECURSIVE DivAt(_, _, _)
DivAt(x, d, i) ==
  IF i = 0
  THEN [q |-> <<>>, r |-> 0]
  ELSE LET p == DivAt(x, d, i - 1)
           v == p.r * Base + x[i]
       IN [q |-> Append(p.q, v \div d), r |-> v % d]

\* The number of bits of x.
BitLen(x) ==
  IF x = <<>> THEN 0
  ELSE LimbBits * (Len(x) - 1)
       + (CHOOSE k \in 1..LimbBits : 2 ^ (k - 1) <= x[1] /\ x[1] < 2 ^ k)

\* x * 2^s
ShiftLeft(x, s) ==
  IF x = <<>> THEN <<>>
  ELSE MulAt(x, 2 ^ (s % LimbBits), Len(x), 0) \o Zeros(s \div LimbBits)

\* x \div 2^s, and whether bits were lost.
ShiftRight(x, s) ==
  LET kept == Len(x) - (s \div LimbBits)
      p == DivAt(x, 2 ^ (s % LimbBits), kept)
  IN IF kept <= 0
     THEN [q |-> <<>>, lost |-> x # <<>>]
     ELSE [q |-> Trim(p.q),
           lost |-> p.r # 0 \/ \E i \in (kept + 1)..Len(x) : x[i] # 0]

IsOdd(x) == x # <<>> /\ x[Len(x)] % 2 = 1

\* Rounding to the nearest float, ties to even: the exact value is x plus,
\* when `sticky`, something below one unit.
\* `half` is x without its s - 1 lowest bits, `top` x without its s lowest.
RoundUp(half, top, sticky, s) ==
  ShiftLeft(IF IsOdd(half.q) /\ (sticky \/ half.lost \/ IsOdd(top))
            THEN AddBits(top, <<1>>)
            ELSE top,
            s)

RoundTo(x, sticky, s) ==
  RoundUp(ShiftRight(x, s - 1), ShiftRight(x, s).q, sticky, s)

RoundBits(x, sticky) ==
  IF BitLen(x) <= MantissaBits
  THEN x
  ELSE RoundTo(x, sticky, BitLen(x) - MantissaBits)

\* x / d rounded to a float.
RoundQuotient(p) == RoundBits(Trim(p.q), p.r # 0)
DivRound(x, d) == RoundQuotient(DivAt(x, d, Len(x)))

Float(neg, mag) == [neg |-> neg /\ mag # <<>>, mag |-> mag]
FloatZero == Float(FALSE, <<>>)

\* The float of an amount given in units of 1/AmountScale: float("0.1") is
\* the float nearest to 10/100.
FloatOf(amount) ==
  Float(FALSE, DivRound(ShiftLeft(NatOf(amount), UnitExp), AmountScale))

\* x + y and x - y in float arithmetic.
Rounded(neg, mag) == Float(neg, RoundBits(mag, FALSE))

FloatAdd(x, y) ==
  Rounded(IF x.neg = y.neg \/ ~LessBits(x.mag, y.mag) THEN x.neg ELSE y.neg,
          IF x.neg = y.neg
          THEN AddBits(x.mag, y.mag)
          ELSE IF LessBits(x.mag, y.mag)
               THEN SubBits(y.mag, x.mag)
               ELSE SubBits(x.mag, y.mag))

FloatSub(x, y) == FloatAdd(x, Float(~y.neg, y.mag))

\* x / n in float arithmetic, n a positive count.
FloatDiv(x, n) == Float(x.neg, DivRound(x.mag, n))

\* ----------------------------------------------------------- statistics

\* The floats of the amount column.
AmountColumn(txs) == [i \in 1..Len(txs) |-> FloatOf(txs[i].amount)]

\* vals[i] + vals[i + step] + ... up to position last, added to acc in order.
RECURSIVE SumEvery(_, _, _, _, _)
SumEvery(vals, i, step, last, acc) ==
  IF i > last THEN acc
  ELSE SumEvery(vals, i + step, step, last, FloatAdd(acc, vals[i]))

\* Lanes of numpy's unrolled summation.
Lanes == 8

\* numpy's sum of a float column of fewer than 128 values: in order for
\* fewer than 8 values; from 8 values on, 8 running sums over the whole
\* blocks of 8, added up pairwise, and the remaining values added in order.
\* The running sum of each lane over the first `whole` values.
LaneSums(vals, whole) ==
  [j \in 1..Lanes |-> SumEvery(vals, j + Lanes, Lanes, whole, vals[j])]

\* ((r[1] + r[2]) + (r[3] + r[4])) + ((r[5] + r[6]) + (r[7] + r[8]))
RECURSIVE Pairwise(_, _, _)
Pairwise(r, lo, hi) ==
  IF lo = hi THEN r[lo]
  ELSE FloatAdd(Pairwise(r, lo, (lo + hi) \div 2),
                Pairwise(r, (lo + hi) \div 2 + 1, hi))

NumpySum(vals) ==
  SumEvery(vals, Len(vals) - (Len(vals) % Lanes) + 1, 1, Len(vals),
           IF Len(vals) < Lanes
           THEN FloatZero
           ELSE Pairwise(LaneSums(vals, Len(vals) - (Len(vals) % Lanes)),
                         1, Lanes))

\* df['amount'].sum()
SumAmounts(txs) == NumpySum(AmountColumn(txs))

\* How many transactions of txs have the value in the field.
CountWhere(txs, field, value) ==
  Cardinality({i \in 1..Len(txs) : txs[i][field] = value})

\* pandas' group sum over the rows of one category, with Kahan's
\* compensation: y = val - c; t = sum + y; c = (t - sum) - y; sum = t.
KahanUpdate(sumx, y, t) ==
  [sumx |-> t, compensation |-> FloatSub(FloatSub(t, sumx), y)]
KahanAdd(sumx, y) == KahanUpdate(sumx, y, FloatAdd(sumx, y))
KahanStep(acc, val) == KahanAdd(acc.sumx, FloatSub(val, acc.compensation))

RECURSIVE KahanFrom(_, _, _, _)
KahanFrom(txs, category, i, acc) ==
  IF i > Len(txs) THEN acc.sumx
  ELSE KahanFrom(txs, category, i + 1,
                 IF txs[i].category # category
                 THEN acc
                 ELSE KahanStep(acc, FloatOf(txs[i].amount)))

\* Mutant: the group sum takes the rows of every category.
SumWhere_AllRows(txs, category) == NumpySum(AmountColumn(txs))

\* df.groupby('category')['amount'].sum() at one category.
SumWhere(txs, category) ==
  KahanFrom(txs, category, 1, [sumx |-> FloatZero, compensation |-> FloatZero])

TYPES == <<"CASH_IN", "CASH_OUT", "OTHER">>

\* calculate_stats on self.transactions: a mapping from stat name to value,
\* empty for no transactions.  The counts are integers, the amounts and
\* the mean floats.
\* Mutant: no early return for an empty list; the totals are there.
calculate_stats_NoEarlyReturn(txs) ==
  [n \in {"total_transactions"} |-> Len(txs)]
  @@ [n \in {"total_amount"} |-> SumAmounts(txs)]
  @@ [n \in {"count_category_" \o txs[i].category : i \in 1..Len(txs)} |-> 1]

\* 'total_amount' and 'avg_transaction_amount' of `count` transactions.
AmountStats(total, count) ==
  [n \in {"total_amount"} |-> total]
  @@ [n \in {"avg_transaction_amount"} |-> FloatDiv(total, count)]

calculate_stats(txs) ==
  IF txs = <<>>
  THEN [n \in {} |-> 0]
  ELSE LET types == {txs[i].type : i \in 1..Len(txs)}
           cats == {txs[i].category : i \in 1..Len(txs)}
       IN [n \in {"total_transactions"} |-> Len(txs)]
          @@ AmountStats(SumAmounts(txs), Len(txs))
          @@ [n \in {"count_" \o Lower(t) : t \in types} |->
                CountWhere(txs, "type", CHOOSE t \in types : n = "count_" \o Lower(t))]
          @@ [n \in {"count_category_" \o c : c \in cats} |->
                CountWhere(txs, "category", CHOOSE c \in cats : n = "count_category_" \o c)]
          @@ [n \in {"amount_category_" \o c : c \in cats} |->
                SumWhere(txs, CHOOSE c \in cats : n = "amount_category_" \o c)]

\* Every stat name there is, in the order the model walks stats.items()
\* (the order decides only the ids of rows inserted by one run).
AllStatNames ==
  <<"total_transactions", "total_amount", "avg_transaction_amount">>
  \o [k \in 1..Len(TYPES) |-> "count_" \o Lower(TYPES[k])]
  \o [k \in 1..Len(CATEGORIES) |-> "count_category_" \o CATEGORIES[k].name]
  \o [k \in 1..Len(CATEGORIES) |-> "amount_category_" \o CATEGORIES[k].name]

\* --------------------------------------------------------------- inputs

\* A '@date' read_xml delivers: milliseconds since the epoch.
GoodDate == "1683014100000"
\* A '@date' fromtimestamp cannot take (21 digits).
HugeDate == "100000000000000000000"
HugeNegativeDate == "-100000000000000000000"
Year10000Date == "253402300800000"

\* The sample message of the test suite and of the sample data generator.
SampleBody ==
  "You have received RWF 500000 from JOHN DOE (0244123456) on 01/05/23 at 08:15 AM. Reference: TX123456789. Fee charged: RWF 0. Available Balance: RWF 1250000"

\* The batches of the runs: records read_xml can deliver.
RunMessages ==
  { NoneMsg,
    NoBodyMsg(TRUE, GoodDate),
    DictMsg("Hello, how are you?", TRUE, GoodDate),
    DictMsg("received RWF 100", TRUE, GoodDate),
    DictMsg("momo 2,000 RWF bill", FALSE, ""),
    DictMsg("cash out", TRUE, HugeDate),
    DictMsg("cash out", TRUE, HugeNegativeDate) }

RECURSIVE SeqsUpTo(_, _)
SeqsUpTo(S, n) ==
  IF n = 0 THEN {<<>>}
  ELSE LET shorter == SeqsUpTo(S, n - 1)
       IN shorter \cup {Append(q, x) : q \in shorter, x \in S}

Batches == SeqsUpTo(RunMessages, MaxBatch)

\* The pieces the bodies of the direct calls are made of.
Fragments ==
  { "paid ", "Payment ", "received ", "withdrew ", "cash out ",
    "credit ", "fee ", "Loan ",
    "RWF 200 ", "RWF . 100 ", "100 ", "1,000.50", "rwf ", "francs ",
    "amount: " }

RECURSIVE Concat(_)
Concat(q) == IF q = <<>> THEN "" ELSE q[1] \o Concat(Tail(q))

Bodies == {Concat(q) : q \in SeqsUpTo(Fragments, MaxFrags)}

\* The messages of the direct calls of extract_transaction_details:
\* every body with a good date, some bodies with every kind of date, and
\* the records that are no mapping or have no text body.
ExtractInputs ==
  {DictMsg(b, TRUE, GoodDate) : b \in Bodies}
  \cup {DictMsg("received RWF 100", hd, d) :
          hd \in BOOLEAN,
          d \in {"", "abc", "-5", Year10000Date, HugeDate, HugeNegativeDate}}
  \cup {DictMsg(SampleBody, TRUE, GoodDate),
        DictMsg("Hello, how are you?", TRUE, GoodDate)}
  \cup {NoneMsg, StrMsg("hi"), NonTextBodyMsg, NoBodyMsg(TRUE, GoodDate),
        NoBodyMsg(FALSE, "")}

\* Messages with amounts that are no whole numbers, in two categories.
StatMessages ==
  { DictMsg("received RWF 0.1 bill", TRUE, GoodDate),
    DictMsg("received RWF 0.1", TRUE, GoodDate),
    DictMsg("received RWF 1.1 bill", TRUE, GoodDate),
    DictMsg("received RWF 100", TRUE, GoodDate) }

\* The try block and is_momo_sms on every message of the model, worked out
\* once per message; the clock only enters processed_date.
AllMessages == RunMessages \cup ExtractInputs \cup StatMessages
Attempts == [m \in AllMessages |-> ExtractBody(m, 0)]
AttemptAt(message, now) ==
  IF Attempts[message].ok
  THEN [Attempts[message] EXCEPT !.tx.processed_date = now]
  ELSE Attempts[message]
IsMomo == [m \in AllMessages |-> is_momo_sms(m)]

\* What calculate_stats reads of a transaction.
Kind(tx) == [amount |-> tx.amount, type |-> tx.type, category |-> tx.category]
KindsOf(txs) == [i \in 1..Len(txs) |-> Kind(txs[i])]

\* The transactions the messages of the runs come to.
RunKinds ==
  {Kind(Attempts[m].tx) :
     m \in {r \in RunMessages : IsMomo[r] = "true" /\ Attempts[r].ok}}

\* self.transactions of the direct calls of calculate_stats: what the
\* processor extracted from up to MaxTxs of the StatMessages.
StatsInputs == SeqsUpTo({Attempts[m].tx : m \in StatMessages}, MaxTxs)

\* calculate_stats on every list of transactions of the model, worked out
\* once per list; a processor kept over the runs holds up to MaxBatch
\* transactions per run.
StatsTable ==
  [q \in SeqsUpTo(RunKinds, MaxBatch * MaxRuns)
          \cup {KindsOf(txs) : txs \in StatsInputs} |-> calculate_stats(q)]
StatsAt(txs) == StatsTable[KindsOf(txs)]

NoStats == [n \in {} |-> 0]

NoCall ==
  [op |-> "none", status |-> "", tx |-> Failure("").tx, category |-> "",
   stats |-> NoStats]

\* ---------------------------------------------------------- persistence

\* str(stat_value), the text the stat_value column holds: different values
\* have different texts.
Str(value) == [text_of |-> value]

\* Mutant: the stat is inserted whether or not it has a row.
UpsertStat_AlwaysInsert(rows, name, value, now) ==
  Append(rows, [stat_name |-> name, stat_value |-> Str(value), updated_at |-> now])

\* SELECT id FROM stats WHERE stat_name = ?, then UPDATE or INSERT.
UpsertStat(rows, name, value, now) ==
  IF \E i \in 1..Len(rows) : rows[i].stat_name = name
  THEN [i \in 1..Len(rows) |->
          IF rows[i].stat_name = name
          THEN [rows[i] EXCEPT !.stat_value = Str(value), !.updated_at = now]
          ELSE rows[i]]
  ELSE Append(rows, [stat_name |-> name, stat_value |-> Str(value),
                     updated_at |-> now])

\* The first `left` upserts of the loop over stats.items(), from name k on.
RECURSIVE UpsertAll(_, _, _, _, _)
UpsertAll(rows, stats, k, left, now) ==
  IF k > Len(AllStatNames) \/ left <= 0 THEN rows
  ELSE IF AllStatNames[k] \in DOMAIN stats
       THEN UpsertAll(UpsertStat(rows, AllStatNames[k], stats[AllStatNames[k]], now),
                      stats, k + 1, left - 1, now)
       ELSE UpsertAll(rows, stats, k + 1, left, now)

\* The statements of save_to_db before its commit: an INSERT per
\* transaction, then an upsert per stat.
Statements(txs) == Len(txs) + Cardinality(DOMAIN StatsAt(txs))

\* The tables as the connection's open transaction has them after the first
\* `done` statements of save_to_db.
Pending(txs, stats, table, stats_rows, now, done) ==
  [transactions |-> table \o SubSeq(txs, 1, IF done < Len(txs) THEN done ELSE Len(txs)),
   stats |-> UpsertAll(stats_rows, stats, 1, done - Len(txs), now)]

\* Mutant: every statement is committed as it runs; the rollback undoes
\* nothing.
save_to_db_autocommit(txs, table, stats_rows, now, db_ok, done) ==
  IF txs = <<>>
  THEN [transactions |-> table, stats |-> stats_rows]
  ELSE Pending(txs, StatsAt(txs), table, stats_rows, now,
               IF db_ok THEN Len(txs) + Len(AllStatNames) ELSE done)

\* save_to_db: the committed tables after the call.  Nothing is written for
\* no transactions; db_ok FALSE is a sqlite3.Error after `done` statements
\* (in the next INSERT or upsert, or in the commit), answered by rollback.
\* The one commit comes after the last statement.
save_to_db(txs, table, stats_rows, now, db_ok, done) ==
  IF txs = <<>> \/ ~db_ok
  THEN [transactions |-> table, stats |-> stats_rows]
  ELSE Pending(txs, StatsAt(txs), table, stats_rows, now,
               Len(txs) + Len(AllStatNames))

NoDashboard ==
  [written |-> FALSE, transactions |-> <<>>, stats |-> NoStats,
   generated_at |-> 0]

\* export_to_json: the dashboard file after the call; an error while
\* writing (export_ok FALSE) is logged.
export_to_json(txs, file, now, export_ok) ==
  IF txs = <<>> \/ ~export_ok
  THEN file
  ELSE [written |-> TRUE, transactions |-> txs, stats |-> StatsAt(txs),
        generated_at |-> now]

\* Mutant: the statistics are worked out anew with every INSERT.
SaveAggregations_PerInsert(txs, db_ok, done) ==
  IF db_ok \/ done >= Len(txs) THEN Len(txs) + 1 ELSE done

\* How often save_to_db calls calculate_stats: once, after the INSERTs, when
\* there are transactions and no INSERT raised.
SaveAggregations(txs, db_ok, done) ==
  IF txs # <<>> /\ (db_ok \/ done >= Len(txs)) THEN 1 ELSE 0

\* How often export_to_json calls calculate_stats: once when there are
\* transactions, unless os.makedirs raised before (reached FALSE).
ExportAggregations(txs, export_ok, reached) ==
  IF txs # <<>> /\ (export_ok \/ reached) THEN 1 ELSE 0

\* No request answered yet.  A response is its status, the id it names and,
\* for a GET, the body of the transaction it carries.
NoResponse == [status |-> 0, id |-> 0, body |-> 0]

\* ------------------------------------------------------------- the run

\* After construction: MomoSmsProcessor.__init__, empty tables, no files.
Init ==
  /\ pc = "idle"
  /\ messages = <<>>
  /\ idx = 1
  /\ transactions = <<>>
  /\ produced = <<>>
  /\ run_error = FALSE
  /\ exit_status = 0
  /\ runs = 0
  /\ db_transactions = <<>>
  /\ db_stats = <<>>
  /\ dashboard = NoDashboard
  /\ dead_letter_files = [t \in {} |-> 0]
  /\ sink_calls = <<>>
  /\ clock = 0
  /\ arg = NoneMsg
  /\ ret = NoCall
  /\ aggregations = 0
  /\ api_transactions = <<>>
  /\ api_issued = {}
  /\ api_response = NoResponse

\* main() and process() up to the for loop.  main() returns 1 when the
\* input file is not there (found FALSE).  process() runs on a new
\* processor object (fresh) or on the one of the run before: connect_db,
\* which raises when the store cannot be opened (db_open FALSE), then
\* read_xml, whose batch is empty for an unreadable or empty input; for an
\* empty batch process() returns and main() returns 0.
StartRun ==
  /\ pc \in {"idle", "done"}
  /\ runs < MaxRuns
  /\ \E found \in BOOLEAN, fresh \in BOOLEAN, db_open \in BOOLEAN,
        batch \in Batches :
       /\ runs' = runs + 1
       /\ aggregations' = 0
       /\ produced' = <<>>
       /\ idx' = 1
       /\ IF ~found
          THEN /\ run_error' = FALSE
               /\ exit_status' = 1
               /\ messages' = <<>>
               /\ pc' = "done"
               /\ UNCHANGED transactions
          ELSE IF ~db_open
          THEN /\ run_error' = TRUE
               /\ messages' = <<>>
               /\ pc' = "except"
               /\ transactions' = IF fresh THEN <<>> ELSE transactions
               /\ UNCHANGED exit_status
          ELSE /\ run_error' = FALSE
               /\ messages' = batch
               /\ pc' = IF batch = <<>> THEN "done" ELSE "loop"
               /\ transactions' = IF fresh THEN <<>> ELSE transactions
               /\ exit_status' = IF batch = <<>> THEN 0 ELSE exit_status
  /\ UNCHANGED <<db_transactions, db_stats, dashboard, dead_letter_files,
                 sink_calls, clock, arg, ret, api_vars>>

\* One turn of the for loop of process(): is_momo_sms, and for a MoMo
\* message extract_transaction_details and the append.  An exception that
\* leaves is_momo_sms or the extractor lands in the except of process().
ProcessMessage ==
  /\ pc = "loop"
  /\ idx <= Len(messages)
  /\ LET message == messages[idx]
         momo == IsMomo[message]
         attempt == AttemptAt(message, clock)
         next == IF idx = Len(messages) THEN "save" ELSE "loop"
     IN \E write_ok \in BOOLEAN :
       LET r == extract_transaction_details(message, attempt, clock, write_ok,
                                            dead_letter_files, sink_calls)
       IN IF momo = "raise"
          THEN /\ run_error' = TRUE
               /\ pc' = "except"
               /\ UNCHANGED <<idx, transactions, produced, dead_letter_files,
                              sink_calls>>
          ELSE IF momo = "false"
          THEN /\ idx' = idx + 1
               /\ pc' = next
               /\ UNCHANGED <<run_error, transactions, produced,
                              dead_letter_files, sink_calls>>
          ELSE IF r.status = "raised"
          THEN /\ run_error' = TRUE
               /\ pc' = "except"
               /\ dead_letter_files' = r.files
               /\ sink_calls' = r.calls
               /\ produced' = Append(produced, <<idx, "dead_letter">>)
               /\ UNCHANGED <<idx, transactions>>
          ELSE /\ idx' = idx + 1
               /\ pc' = next
               /\ dead_letter_files' = r.files
               /\ sink_calls' = r.calls
               /\ transactions' = IF r.status = "transaction"
                                  THEN Append(transactions, r.tx)
                                  ELSE transactions
               /\ produced' = Append(produced,
                                <<idx, IF r.status = "transaction"
                                       THEN "transaction" ELSE "dead_letter">>)
               /\ UNCHANGED run_error
  /\ UNCHANGED <<messages, exit_status, runs, db_transactions, db_stats,
                 dashboard, aggregations, clock, arg, ret, api_vars>>

\* self.save_to_db() in process().
SaveToDb ==
  /\ pc = "save"
  /\ \E db_ok \in BOOLEAN :
     \E done \in IF db_ok THEN {Statements(transactions)}
                  ELSE 0..Statements(transactions) :
       LET r == save_to_db(transactions, db_transactions, db_stats, clock,
                           db_ok, done)
       IN /\ db_transactions' = r.transactions
          /\ db_stats' = r.stats
          /\ aggregations' = aggregations + SaveAggregations(transactions, db_ok, done)
  /\ pc' = "export"
  /\ UNCHANGED <<messages, idx, transactions, produced, run_error, exit_status,
                 runs, dashboard, dead_letter_files, sink_calls, clock, arg, ret,
                 api_vars>>

\* self.export_to_json(...) in process(), then the finally that closes
\* the connection, and the return: the locals of the run are gone, and
\* main() logs "Processing completed successfully" and returns 0.
ExportToJson ==
  /\ pc = "export"
  /\ \E export_ok \in BOOLEAN :
     \E reached \in IF export_ok THEN {TRUE} ELSE BOOLEAN :
       /\ dashboard' = export_to_json(transactions, dashboard, clock, export_ok)
       /\ aggregations' =
            aggregations + ExportAggregations(transactions, export_ok, reached)
  /\ pc' = "done"
  /\ exit_status' = 0
  /\ messages' = <<>>
  /\ idx' = 1
  /\ produced' = <<>>
  /\ UNCHANGED <<transactions, run_error, runs, db_transactions, db_stats,
                 dead_letter_files, sink_calls, clock, arg, ret, api_vars>>

\* The except branch of process(): the error is logged, the finally closes
\* the connection and process() returns normally; main() logs "Processing
\* completed successfully" and returns 0.
HandleRunError ==
  /\ pc = "except"
  /\ pc' = "done"
  /\ exit_status' = 0
  /\ messages' = <<>>
  /\ idx' = 1
  /\ produced' = <<>>
  /\ UNCHANGED <<transactions, run_error, runs, db_transactions, db_stats,
                 dashboard, aggregations, dead_letter_files, sink_calls, clock,
                 arg, ret,
                 api_vars>>

\* A second passes while a run is under way.
Tick ==
  /\ pc \in {"loop", "save", "export"}
  /\ clock < MaxClock
  /\ clock' = clock + 1
  /\ UNCHANGED <<run_vars, dead_letter_files, sink_calls, arg, ret, api_vars>>

Next ==
  StartRun \/ ProcessMessage \/ SaveToDb \/ ExportToJson \/ HandleRunError \/ Tick

Spec == Init /\ [][Next]_vars

\* ----------------------------------------------------- the direct calls

\* A processor object and a message some caller (a test) hands to
\* extract_transaction_details or whose body it hands to
\* categorize_transaction.
InitExtract ==
  /\ pc = "idle"
  /\ messages = <<>>
  /\ idx = 1
  /\ transactions = <<>>
  /\ produced = <<>>
  /\ run_error = FALSE
  /\ exit_status = 0
  /\ runs = 0
  /\ db_transactions = <<>>
  /\ db_stats = <<>>
  /\ dashboard = NoDashboard
  /\ dead_letter_files = [t \in {} |-> 0]
  /\ sink_calls = <<>>
  /\ clock = 0
  /\ arg \in ExtractInputs
  /\ ret = NoCall
  /\ aggregations = 0
  /\ api_transactions = <<>>
  /\ api_issued = {}
  /\ api_response = NoResponse

CallExtract ==
  /\ ret.op = "none"
  /\ LET attempt == AttemptAt(arg, clock)
     IN \E write_ok \in BOOLEAN :
       LET r == extract_transaction_details(arg, attempt, clock, write_ok,
                                            dead_letter_files, sink_calls)
       IN /\ ret' = [op |-> "extract", status |-> r.status, tx |-> r.tx,
                     category |-> "", stats |-> NoStats]
          /\ dead_letter_files' = r.files
          /\ sink_calls' = r.calls
  /\ UNCHANGED <<run_vars, clock, arg, api_vars>>

CallCategorize ==
  /\ ret.op = "none"
  /\ arg.kind = "dict" /\ arg.hasBody /\ arg.bodyIsText
  /\ ret' = [op |-> "categorize", status |-> "", tx |-> Failure("").tx,
             category |-> categorize_transaction(arg.body), stats |-> NoStats]
  /\ UNCHANGED <<run_vars, dead_letter_files, sink_calls, clock, arg, api_vars>>

NextExtract == CallExtract \/ CallCategorize

SpecExtract == InitExtract /\ [][NextExtract]_vars

\* A processor object that holds some transactions, and a caller (a test,
\* save_to_db, export_to_json) that asks for their statistics.
InitStats ==
  /\ pc = "idle"
  /\ messages = <<>>
  /\ idx = 1
  /\ transactions \in StatsInputs
  /\ produced = <<>>
  /\ run_error = FALSE
  /\ exit_status = 0
  /\ runs = 0
  /\ db_transactions = <<>>
  /\ db_stats = <<>>
  /\ dashboard = NoDashboard
  /\ dead_letter_files = [t \in {} |-> 0]
  /\ sink_calls = <<>>
  /\ clock = 0
  /\ arg = NoneMsg
  /\ ret = NoCall
  /\ aggregations = 0
  /\ api_transactions = <<>>
  /\ api_issued = {}
  /\ api_response = NoResponse

CallStats ==
  /\ ret.op = "none"
  /\ ret' = [op |-> "stats", status |-> "", tx |-> Failure("").tx,
             category |-> "", stats |-> StatsAt(transactions)]
  /\ UNCHANGED <<run_vars, dead_letter_files, sink_calls, clock, arg, api_vars>>

NextStats == CallStats

SpecStats == InitStats /\ [][NextStats]_vars

\* -------------------------------------------------- the transactions API

\* sms_api.py keeps the transactions in a module-level list and hands out
\* list positions as ids.  The clients of the model give every transaction
\* they post a body of its own (a number here), which tells the
\* transactions apart whatever their position.
ApiBodies == 1..MaxPosts
ApiTypes == {"CASH_IN", "CASH_OUT"}
ApiIds == 0..MaxPosts

Response(status, id, body) == [status |-> status, id |-> id, body |-> body]

\* transactions.pop(transaction_id)
Pop(list, id) ==
  [k \in 1..(Len(list) - 1) |-> IF k <= id THEN list[k] ELSE list[k + 1]]

\* The server starts with an empty list.
InitApi ==
  /\ pc = "idle"
  /\ messages = <<>>
  /\ idx = 1
  /\ transactions = <<>>
  /\ produced = <<>>
  /\ run_error = FALSE
  /\ exit_status = 0
  /\ runs = 0
  /\ db_transactions = <<>>
  /\ db_stats = <<>>
  /\ dashboard = NoDashboard
  /\ dead_letter_files = [t \in {} |-> 0]
  /\ sink_calls = <<>>
  /\ clock = 0
  /\ arg = NoneMsg
  /\ ret = NoCall
  /\ aggregations = 0
  /\ api_transactions = <<>>
  /\ api_issued = {}
  /\ api_response = NoResponse

\* do_POST on /transactions: 401 without valid credentials, 400 for no
\* content, bad JSON or a missing field (valid FALSE); else the transaction
\* is appended and its position returned with 201.
ApiPost ==
  /\ Len(api_transactions) < MaxPosts
  /\ \E auth_ok \in BOOLEAN, valid \in BOOLEAN, type \in ApiTypes,
        body \in ApiBodies \ {api_transactions[k].body : k \in 1..Len(api_transactions)} :
       IF ~auth_ok
       THEN /\ api_response' = Response(401, 0, 0)
            /\ UNCHANGED <<api_transactions, api_issued>>
       ELSE IF ~valid
       THEN /\ api_response' = Response(400, 0, 0)
            /\ UNCHANGED <<api_transactions, api_issued>>
       ELSE /\ api_transactions' =
                 Append(api_transactions,
                        [address |-> "MoMo", body |-> body, transaction_type |-> type])
            /\ api_response' = Response(201, Len(api_transactions), 0)
            /\ api_issued' = api_issued \cup {<<Len(api_transactions), body>>}
  /\ UNCHANGED <<run_vars, dead_letter_files, sink_calls, clock, arg, ret>>

\* do_GET on /transactions/<id>: 404 for a position outside the list, else
\* the transaction at that position.
ApiGet ==
  /\ \E auth_ok \in BOOLEAN, id \in ApiIds :
       api_response' =
         IF ~auth_ok THEN Response(401, 0, 0)
         ELSE IF id >= Len(api_transactions) THEN Response(404, 0, 0)
         ELSE Response(200, id, api_transactions[id + 1].body)
  /\ UNCHANGED <<run_vars, dead_letter_files, sink_calls, clock, arg, ret,
                 api_transactions, api_issued>>

\* do_PUT on /transactions/<id>: 404 for a position outside the list, 400
\* for no content or bad JSON, else the fields of the payload (here the
\* transaction type) are written over those of the transaction.
ApiPut ==
  /\ \E auth_ok \in BOOLEAN, valid \in BOOLEAN, id \in ApiIds, type \in ApiTypes :
       IF ~auth_ok
       THEN /\ api_response' = Response(401, 0, 0)
            /\ UNCHANGED api_transactions
       ELSE IF id >= Len(api_transactions)
       THEN /\ api_response' = Response(404, 0, 0)
            /\ UNCHANGED api_transactions
       ELSE IF ~valid
       THEN /\ api_response' = Response(400, 0, 0)
            /\ UNCHANGED api_transactions
       ELSE /\ api_transactions' =
                 [api_transactions EXCEPT ![id + 1].transaction_type = type]
            /\ api_response' = Response(200, id, 0)
  /\ UNCHANGED <<run_vars, dead_letter_files, sink_calls, clock, arg, ret,
                 api_issued>>

\* do_DELETE on /transactions/<id>: 404 for a position outside the list,
\* else the transaction at that position is popped; the client that was
\* given this id has deleted its transaction.
ApiDelete ==
  /\ \E auth_ok \in BOOLEAN, id \in ApiIds :
       IF ~auth_ok
       THEN /\ api_response' = Response(401, 0, 0)
            /\ UNCHANGED <<api_transactions, api_issued>>
       ELSE IF id >= Len(api_transactions)
       THEN /\ api_response' = Response(404, 0, 0)
            /\ UNCHANGED <<api_transactions, api_issued>>
       ELSE /\ api_transactions' = Pop(api_transactions, id)
            /\ api_response' = Response(200, id, 0)
            /\ api_issued' = {e \in api_issued : e[1] # id}
  /\ UNCHANGED <<run_vars, dead_letter_files, sink_calls, clock, arg, ret>>

NextApi == ApiPost \/ ApiGet \/ ApiPut \/ ApiDelete

SpecApi == InitApi /\ [][NextApi]_vars

\* ---------------------------------------------------- claims: the run

\* How many Transactions / dead-letter records the run produced for the
\* message at position i of its batch.
OutcomesOf(i, what) ==
  Cardinality({j \in 1..Len(produced) : produced[j] = <<i, what>>})

\* The for loop of the run is over: every message of the batch was reached.
LoopOver == pc \in {"save", "export"}

\* C1: for every message of the batch handed to a run, exactly one of
\* {Transaction, DeadLetterRecord} is produced: never both, never neither.
C1_ExactlyOneOutcome ==
  LoopOver =>
    \A i \in 1..Len(messages) :
      OutcomesOf(i, "transaction") + OutcomesOf(i, "dead_letter") = 1

\* A record whose fault the claim lists: no body, a body that is not text,
\* a record that is not a mapping.
Faulty(message) ==
  message.kind # "dict" \/ ~message.hasBody \/ ~message.bodyIsText

\* C2: an error caused by a single message record is recovered into a
\* dead-letter record and the run goes on with the next message: no run
\* that has a batch ends in the except branch of process(), and once the
\* loop is over every faulty record has its dead-letter record and every
\* other MoMo message its Transaction.
C2_FailureIsolation ==
  /\ pc = "except" => messages = <<>>
  /\ LoopOver =>
       \A i \in 1..Len(messages) :
         /\ Faulty(messages[i]) => OutcomesOf(i, "dead_letter") = 1
         /\ (~Faulty(messages[i]) /\ IsMomo[messages[i]] = "true")
              => OutcomesOf(i, "transaction") + OutcomesOf(i, "dead_letter") = 1

\* C4: a message record with no body field at all is dead-lettered by the
\* run (one dead-letter record carrying it) and has no Transaction.
C4_NoBodyDeadLettered ==
  LoopOver =>
    \A i \in 1..Len(messages) :
      (messages[i].kind = "dict" /\ ~messages[i].hasBody) =>
        /\ OutcomesOf(i, "dead_letter") = 1
        /\ OutcomesOf(i, "transaction") = 0
        /\ \E j \in 1..Len(sink_calls) : sink_calls[j].message = messages[i]

\* ------------------------------------------- claims: the direct calls

\* The direct call of extract_transaction_details has returned / has
\* returned a Transaction.
Extracted == ret.op = "extract"
ReturnedTx == ret.op = "extract" /\ ret.status = "transaction"
Categorized == ret.op = "categorize"

\* Some step of the try block raises on the message: the subscript (no
\* mapping, no '@body'), the timestamp conversion, re.search on a body that
\* is not text.
StepRaises(message) ==
  \/ message.kind # "dict"
  \/ ~message.hasBody
  \/ ~message.bodyIsText
  \/ DateStep(message) = "raise"

\* C3: extract_transaction_details never lets an exception out: when a
\* step raises, the message and an error description go to the sink exactly
\* once and None is returned, also when the sink's write fails; a returned
\* Transaction comes with no sink call.
C3_ExtractorNeverRaises ==
  Extracted =>
    /\ ret.status \in {"transaction", "none"}
    /\ StepRaises(arg) =>
         /\ ret.status = "none"
         /\ Len(sink_calls) = 1
         /\ sink_calls[1].message = arg
         /\ sink_calls[1].error # ""
    /\ ~StepRaises(arg) => (ret.status = "transaction" /\ sink_calls = <<>>)

\* A step raised and the write of the sink failed too.
C3_Witness ==
  /\ Extracted
  /\ StepRaises(arg)
  /\ Len(sink_calls) = 1
  /\ ~sink_calls[1].written
  /\ ret.status = "none"

\* The fixed set of 15 labels.
Labels ==
  {"bills", "shopping", "food", "transport", "entertainment", "education",
   "health", "transfer", "airtime", "withdrawal", "deposit", "salary",
   "savings", "loan", "other"}

\* Some keyword of a category other than "other" occurs in the text.
SomeKeywordIn(text) ==
  \E k \in 1..Len(CATEGORIES) :
    CATEGORIES[k].name # "other" /\ AnyKeywordIn(CATEGORIES[k].keywords, text)

\* C5: categorize_transaction returns one label of the 15 for every input,
\* and "other" if and only if no keyword of another category occurs in the
\* input (also where the extractor applies it to the lower-cased body).
C5_CategorizerTotal ==
  /\ Cardinality(Labels) = 15
  /\ Categorized =>
       /\ ret.category \in Labels
       /\ (ret.category = "other") <=> ~SomeKeywordIn(arg.body)
  /\ ReturnedTx =>
       /\ ret.tx.category \in Labels
       /\ (ret.tx.category = "other") <=> ~SomeKeywordIn(Lower(arg.body))

\* A text with a keyword in capitals only is "other" for the categorizer.
C5_Witness ==
  /\ Categorized
  /\ ret.category = "other"
  /\ arg.body # ""
  /\ SomeKeywordIn(Lower(arg.body))

\* The declaration order of the categories.
DeclOrder ==
  <<"bills", "shopping", "food", "transport", "entertainment", "education",
    "health", "transfer", "airtime", "withdrawal", "deposit", "salary",
    "savings", "loan", "other">>

\* The positions in DeclOrder of the categories a keyword of which occurs
\* in the text; "other", the last one, always counts.
Hits(text) ==
  {k \in 1..Len(DeclOrder) :
     \/ k = Len(DeclOrder)
     \/ \E j \in 1..Len(CATEGORIES) :
          /\ CATEGORIES[j].name = DeclOrder[k]
          /\ AnyKeywordIn(CATEGORIES[j].keywords, text)}

MinOf(S) == CHOOSE k \in S : \A j \in S : k <= j

\* C6: with keywords of several categories in the description, the
\* category that comes first in the declaration order is returned (a
\* keyword of airtime and loan gives airtime); "other" comes last.
C6_DeclarationOrder ==
  /\ DeclOrder[Len(DeclOrder)] = "other"
  /\ Categorized => ret.category = DeclOrder[MinOf(Hits(arg.body))]
  /\ (Categorized /\ arg.body = "credit ") => ret.category = "airtime"

\* A description with keywords of two categories got the earlier one.
C6_Witness ==
  /\ Categorized
  /\ Cardinality(Hits(arg.body)) >= 3
  /\ ret.category = "education"
  /\ Contains(arg.body, "credit")

HasCashIn(body) == AnyKeywordIn(CASH_IN_KEYWORDS, Lower(body))
HasCashOut(body) == AnyKeywordIn(CASH_OUT_KEYWORDS, Lower(body))

\* C7: every Transaction has one type of {CASH_IN, CASH_OUT, OTHER}:
\* CASH_IN iff the lower-cased body has a CASH_IN keyword, CASH_OUT iff it
\* has a CASH_OUT keyword and no CASH_IN keyword, OTHER iff it has neither.
C7_TypeFromKeywords ==
  ReturnedTx =>
    /\ ret.tx.type \in {"CASH_IN", "CASH_OUT", "OTHER"}
    /\ (ret.tx.type = "CASH_IN") <=> HasCashIn(arg.body)
    /\ (ret.tx.type = "CASH_OUT") <=> (HasCashOut(arg.body) /\ ~HasCashIn(arg.body))
    /\ (ret.tx.type = "OTHER") <=> (~HasCashIn(arg.body) /\ ~HasCashOut(arg.body))

\* A body with a CASH_OUT keyword in capitals and no CASH_IN keyword.
C7_Witness ==
  /\ ReturnedTx
  /\ ret.tx.type = "CASH_OUT"
  /\ Contains(arg.body, "Payment")
  /\ ~HasCashIn(arg.body)

InSeq(x, q) == \E k \in 1..Len(q) : q[k] = x

\* C8 as stated: every body that contains "paid" or contains "payment" is
\* classified CASH_IN.
C8_PaidOrPaymentIsCashIn ==
  ReturnedTx =>
    ((Contains(Lower(arg.body), "paid") \/ Contains(Lower(arg.body), "payment"))
       => ret.tx.type = "CASH_IN")

\* C8 as amended: "paid" is a keyword of both sets and, CASH_IN being
\* checked first, every body that contains "paid" is CASH_IN; "payment" is a
\* keyword of CASH_OUT only (CASH_IN has "payment received"), so a body that
\* contains "payment" is CASH_IN when it also has a CASH_IN keyword and
\* CASH_OUT otherwise.
C8_PaidSharedPaymentCashOut ==
  /\ InSeq("paid", CASH_IN_KEYWORDS) /\ InSeq("paid", CASH_OUT_KEYWORDS)
  /\ InSeq("payment", CASH_OUT_KEYWORDS) /\ ~InSeq("payment", CASH_IN_KEYWORDS)
  /\ ReturnedTx =>
       /\ Contains(Lower(arg.body), "paid") => ret.tx.type = "CASH_IN"
       /\ Contains(Lower(arg.body), "payment") =>
            ret.tx.type = IF HasCashIn(arg.body) THEN "CASH_IN" ELSE "CASH_OUT"

\* A body with "paid" (and so with keywords of both sets) came out CASH_IN.
C8_Witness ==
  /\ ReturnedTx
  /\ Contains(Lower(arg.body), "paid")
  /\ HasCashOut(arg.body)
  /\ ret.tx.type = "CASH_IN"

\* Pattern k matches the body and its candidate parses as a number.
Parsable(body, k) ==
  AmountCandidate(body, k).matched /\ FloatParses(AmountCandidate(body, k).text)

\* A record that is a mapping with a text body and a '@date' that converts
\* or falls back to the clock.
WellFormed(message) == ~StepRaises(message)

\* C9: every Transaction has a non-negative amount, 0.0 whenever no amount
\* pattern yields a parsable number, and a body without an amount never
\* makes the extraction fail.
C9_AmountNonNegative ==
  /\ ReturnedTx =>
       /\ ret.tx.amount >= 0
       /\ (\A k \in 1..Len(amount_patterns) : ~Parsable(arg.body, k))
            => ret.tx.amount = 0
  /\ (Extracted /\ WellFormed(arg)) => ret.status = "transaction"

\* A pattern matched, no candidate parsed, and a Transaction with amount
\* 0.0 was returned.
C9_Witness ==
  /\ ReturnedTx
  /\ ret.tx.amount = 0
  /\ \E k \in 1..Len(amount_patterns) : AmountCandidate(arg.body, k).matched
  /\ \A k \in 1..Len(amount_patterns) : ~Parsable(arg.body, k)

\* C10: the amount is that of the first pattern, in list order (RWF before
\* the number, RWF after it, labelled with RWF, labelled without, francs
\* after it), whose candidate parses once its commas are stripped; a
\* candidate that does not parse passes the turn to the next pattern, and
\* later patterns that match count for nothing.
C10_FirstParsablePatternWins ==
  ReturnedTx =>
    LET ok == {k \in 1..Len(amount_patterns) : Parsable(arg.body, k)}
    IN /\ Len(amount_patterns) = 5
       /\ ok # {} =>
            ret.tx.amount = FloatValue(AmountCandidate(arg.body, MinOf(ok)).text)
       /\ arg.body = "100 RWF 200 " => ret.tx.amount = 200 * AmountScale
       /\ arg.body = "1,000.50rwf " => ret.tx.amount = 1000 * AmountScale + 50
       /\ arg.body = "RWF . 100 rwf " => ret.tx.amount = 100 * AmountScale
       /\ arg.body = "amount: 100 " => ret.tx.amount = 100 * AmountScale
       /\ arg.body = "100 francs " => ret.tx.amount = 100 * AmountScale

\* The first pattern matched with a candidate that does not parse, and a
\* later pattern gave the amount.
C10_Witness ==
  /\ ReturnedTx
  /\ AmountCandidate(arg.body, 1).matched
  /\ ~Parsable(arg.body, 1)
  /\ Parsable(arg.body, 2)
  /\ ret.tx.amount = 100 * AmountScale

\* A record that is a mapping with a text body.
HasTextBody(message) ==
  message.kind = "dict" /\ message.hasBody /\ message.bodyIsText

\* C11: for every message that has a body, whatever its '@date' holds
\* (absent, empty, no number, any integer however large or negative), the
\* extractor comes to some date and returns a Transaction, never a failure.
C11_TimestampNeverFails ==
  (Extracted /\ HasTextBody(arg)) =>
    /\ ret.status = "transaction"
    /\ ret.tx.date # ""
    /\ sink_calls = <<>>

\* ------------------------------------------------ claims: statistics

\* calculate_stats has returned.
GotStats == ret.op = "stats"

\* The category names in the order of the keys of a snapshot: value_counts
\* and groupby hand them out per category, groupby sorted by name.
SortedLabels ==
  <<"airtime", "bills", "deposit", "education", "entertainment", "food",
    "health", "loan", "other", "salary", "savings", "shopping", "transfer",
    "transport", "withdrawal">>

\* The sum of the count_category_* values of a snapshot.
RECURSIVE CountCategorySum(_, _)
CountCategorySum(stats, k) ==
  IF k > Len(SortedLabels) THEN 0
  ELSE (IF "count_category_" \o SortedLabels[k] \in DOMAIN stats
        THEN stats["count_category_" \o SortedLabels[k]] ELSE 0)
       + CountCategorySum(stats, k + 1)

\* The sum of the amount_category_* values of a snapshot, added up as
\* floats in the order of the keys.
RECURSIVE AmountCategorySum(_, _, _)
AmountCategorySum(stats, k, acc) ==
  IF k > Len(SortedLabels) THEN acc
  ELSE AmountCategorySum(stats, k + 1,
         IF "amount_category_" \o SortedLabels[k] \in DOMAIN stats
         THEN FloatAdd(acc, stats["amount_category_" \o SortedLabels[k]])
         ELSE acc)

\* Two non-negative floats that differ by less than 2^-40 of the larger.
Close(x, y) ==
  LET big == IF LessBits(x.mag, y.mag) THEN y.mag ELSE x.mag
      small == IF LessBits(x.mag, y.mag) THEN x.mag ELSE y.mag
  IN ~x.neg /\ ~y.neg /\ LessBits(ShiftLeft(SubBits(big, small), 40), big \o <<0>>)

WholeAmounts(txs) == \A i \in 1..Len(txs) : txs[i].amount % AmountScale = 0

C13_EmptyBatchEmptySnapshot ==
  (GotStats /\ transactions = <<>>) =>
    /\ DOMAIN ret.stats = {}
    /\ \A k \in 1..Len(AllStatNames) : AllStatNames[k] \notin DOMAIN ret.stats

\* calculate_stats was called on a processor without transactions.
C13_Witness ==
  /\ GotStats
  /\ transactions = <<>>
  /\ ret.stats = NoStats

\* ---------------------------------------------- claims: the dead letters

\* The calls of the sink whose write went through.
WrittenCalls == {j \in 1..Len(sink_calls) : sink_calls[j].written}

\* C14: the dead-letter records are write-once and append-only, one per
\* failure: after k failures whose record was written, several of them
\* within one clock second included, there are k records, and the record
\* of every one of them is still there.
C14_OneRecordPerFailure ==
  /\ Cardinality(DOMAIN dead_letter_files) = Cardinality(WrittenCalls)
  /\ \A j \in WrittenCalls :
       \E t \in DOMAIN dead_letter_files :
         /\ dead_letter_files[t].message = sink_calls[j].message
         /\ dead_letter_files[t].error = sink_calls[j].error

\* ------------------------------------------------ claims: persistence

\* The Transactions the run under way has appended to self.transactions.
RunCount ==
  Cardinality({j \in 1..Len(produced) : produced[j][2] = "transaction"})
RunTransactions ==
  SubSeq(transactions, Len(transactions) - RunCount + 1, Len(transactions))

\* Whether the stats table has a row with the name, the text of the value
\* and the update time.
HasStatRow(rows, name, value, now) ==
  \E i \in 1..Len(rows) :
    /\ rows[i].stat_name = name
    /\ rows[i].stat_value = Str(value)
    /\ rows[i].updated_at = now

\* C15: the batch-level write is all-or-nothing.  Every step of a run either
\* leaves the transactions and stats tables exactly as they were, or it is
\* the write of the run and commits all of the run's Transaction rows and
\* all entries of its statistics; a failure at any point of the write
\* commits nothing.
C15_AllOrNothing ==
  [][ \/ /\ db_transactions' = db_transactions
         /\ db_stats' = db_stats
      \/ /\ pc = "save"
         /\ Len(db_transactions') >= Len(db_transactions) + RunCount
         /\ SubSeq(db_transactions', 1, Len(db_transactions)) = db_transactions
         /\ SubSeq(db_transactions', Len(db_transactions') - RunCount + 1,
                   Len(db_transactions')) = RunTransactions
         /\ \A n \in DOMAIN StatsAt(transactions) :
              HasStatRow(db_stats', n, StatsAt(transactions)[n], clock) ]_vars

\* A write that failed has been rolled back: the run has transactions, the
\* save is over and the tables are as empty as before.
C15_Witness ==
  /\ pc = "export"
  /\ transactions # <<>>
  /\ db_transactions = <<>>
  /\ db_stats = <<>>

\* C16: stats persistence is an upsert keyed by stat name.  Over the runs
\* against one store the stats table never holds two rows of one name, and
\* when the write of a run commits, every stat name of the run's snapshot
\* has its row with that run's value and update time, the rows of the other
\* names staying as they were.
C16_UpsertByName ==
  [][ /\ \A i, j \in 1..Len(db_stats') :
           db_stats'[i].stat_name = db_stats'[j].stat_name => i = j
      /\ (pc = "save" /\ db_transactions' # db_transactions) =>
           /\ \A n \in DOMAIN StatsAt(transactions) :
                HasStatRow(db_stats', n, StatsAt(transactions)[n], clock)
           /\ \A i \in 1..Len(db_stats) :
                db_stats[i].stat_name \notin DOMAIN StatsAt(transactions) =>
                  db_stats'[i] = db_stats[i] ]_vars

\* Two runs have written: the row of 'total_transactions' was overwritten
\* in the second after being inserted in the first, and a row of the first
\* run is still as it was.
C16_Witness ==
  /\ runs = 2
  /\ pc = "export"
  /\ \E i, j \in 1..Len(db_stats) :
       /\ db_stats[i].stat_name = "total_transactions"
       /\ db_stats[i].updated_at = 1
       /\ db_stats[j].updated_at = 0

\* C17: the pipeline holds no state across runs.  The rows a run appends and
\* the statistics it writes come from the Transactions of that run's
\* messages only, on the processor object of an earlier run too.
C17_NoStateAcrossRuns ==
  [][ (pc = "save" /\ db_transactions' # db_transactions) =>
        /\ db_transactions' = db_transactions \o RunTransactions
        /\ \A n \in DOMAIN StatsAt(RunTransactions) :
             HasStatRow(db_stats', n, StatsAt(RunTransactions)[n], clock) ]_vars

\* C18: a run that went through a run-level error (the store that cannot be
\* opened, an exception out of the loop) is not reported as completed:
\* its caller sees a status other than 0.
C18_FailureObserved ==
  (pc = "done" /\ run_error) => exit_status # 0

\* --------------------------------------- claims: the sample message

SampleMsg == DictMsg(SampleBody, TRUE, GoodDate)

C20_SampleReference ==
  (arg = SampleMsg /\ ret.op = "extract") =>
    ret.tx.reference = Some("TX123456789")

\* C21: for the sample body the category the extractor assigns is one of
\* deposit, transfer, other.
C21_SampleCategory ==
  (arg = SampleMsg /\ ret.op = "extract") =>
    ret.tx.category \in {"deposit", "transfer", "other"}

HelloMsg == DictMsg("Hello, how are you?", TRUE, GoodDate)

\* C22: extracting the message with body "Hello, how are you?" is no
\* failure: the Transaction has amount 0.0, type OTHER, category "other",
\* no phone and no reference, and nothing goes to the dead letters.
C22_PlainBodyExtracts ==
  (arg = HelloMsg /\ ret.op = "extract") =>
    /\ ret.status = "transaction"
    /\ ret.tx.amount = 0
    /\ ret.tx.type = "OTHER"
    /\ ret.tx.category = "other"
    /\ ret.tx.phone = None
    /\ ret.tx.reference = None
    /\ sink_calls = <<>>

C22_Witness ==
  /\ arg = HelloMsg
  /\ ret.op = "extract"
  /\ ret.tx.description = "Hello, how are you?"

\* C23: amount extraction is idempotent over the stored description.  The
\* description of every Transaction the extractor returns is the body,
\* verbatim, and extracting a message with the description as its body
\* gives a Transaction with the same amount and the same description.
C23_AmountIdempotent ==
  (ret.op = "extract" /\ ret.status = "transaction") =>
    /\ ret.tx.description = arg.body
    /\ ExtractBody(DictMsg(ret.tx.description, TRUE, GoodDate), clock).ok
    /\ ExtractBody(DictMsg(ret.tx.description, TRUE, GoodDate), clock).tx.amount
         = ret.tx.amount
    /\ ExtractBody(DictMsg(ret.tx.description, TRUE, GoodDate), clock).tx.description
         = ret.tx.description

\* A Transaction with an amount other than 0.0 out of a body with capital
\* letters.
C23_Witness ==
  /\ ret.op = "extract"
  /\ ret.status = "transaction"
  /\ arg.body = "Payment RWF 200 "
  /\ ret.tx.amount = 200 * AmountScale

LabelAt(txt, label, j) ==
  /\ j + Len(label) <= Len(txt)
  /\ SubSeq(txt, j, j + Len(label) - 1) = label
  /\ (j = 1 \/ Ch(txt, j - 1) \notin WordCharsLower)
  /\ Ch(txt, j + Len(label)) \in ColonSpaceChars
HasLabel(body) ==
  \E label \in {"ref", "reference", "id"}, j \in 1..Len(body) :
    LabelAt(Lower(body), label, j)

\* C26: the reference is label-driven: a body with none of the labelled
\* forms `ref: <token>`, `reference: <token>`, `id: <token>` gives a
\* Transaction without reference.
C26_NoLabelNoReference ==
  (ret.op = "extract" /\ ret.status = "transaction" /\ ~HasLabel(arg.body)) =>
    ret.tx.reference = None

\* ------------------------------------------ claims: the persisted stats

\* Whether the name is one of the count_category_* stats.
IsCategoryCount(name) ==
  /\ Len(name) > Len("count_category_")
  /\ SubSeq(name, 1, Len("count_category_")) = "count_category_"

\* The sum of the values of the count_category_* rows of the stats table,
\* from row i on.
RECURSIVE PersistedCategoryCounts(_, _)
PersistedCategoryCounts(rows, i) ==
  IF i > Len(rows) THEN 0
  ELSE (IF IsCategoryCount(rows[i].stat_name)
        THEN rows[i].stat_value.text_of ELSE 0)
       + PersistedCategoryCounts(rows, i + 1)

\* C27: after any sequence of completed runs against the same store, the
\* values of the persisted count_category_* rows add up to the value of the
\* persisted total_transactions row: no row of an earlier run survives next
\* to the totals of a later run.
C27_PersistedStatsReconcile ==
  pc \in {"idle", "done"} =>
    \A i \in 1..Len(db_stats) :
      db_stats[i].stat_name = "total_transactions" =>
        PersistedCategoryCounts(db_stats, 1) = db_stats[i].stat_value.text_of

\* C28: the database and the dashboard export agree: the export holds only
\* Transactions that are committed rows of the transactions table, so a run
\* whose database write was rolled back leaves no export with its
\* Transactions.
C28_ExportAgreesWithDb ==
  dashboard.written =>
    \A i \in 1..Len(dashboard.transactions) :
      \E j \in 1..Len(db_transactions) :
        db_transactions[j] = dashboard.transactions[i]

\* ------------------------------------------- claims: the MoMo filter

\* Whether the body holds, whatever the case of its letters, one of the
\* MoMo indicator keywords.
HasIndicator(body) ==
  \E word \in {"momo", "mobile money", "transaction", "received", "sent",
                "cash in", "cash out", "withdraw", "deposit"} :
    Contains(Lower(body), word)

\* The message is a record with a text body that holds an indicator.
IndicatedMessage(message) ==
  /\ message.kind = "dict"
  /\ message.hasBody
  /\ message.bodyIsText
  /\ HasIndicator(message.body)

\* C29: every Transaction a run produces has a description with a MoMo
\* indicator keyword; a message whose body has none of them is not handed
\* to the extractor: no Transaction and no dead-letter record comes of it.
C29_OnlyMomoMessages ==
  /\ \A i \in 1..Len(transactions) : HasIndicator(transactions[i].description)
  /\ \A j \in 1..Len(produced) : IndicatedMessage(messages[produced[j][1]])
  /\ \A j \in 1..Len(sink_calls) : IndicatedMessage(sink_calls[j].message)

\* The loop is over a batch of "Hello, how are you?" and a MoMo message:
\* only the second message has an outcome.
C29_Witness ==
  /\ pc = "save"
  /\ messages = <<HelloMsg, DictMsg("received RWF 100", TRUE, GoodDate)>>
  /\ produced = <<(<<2, "transaction">>)>>
  /\ Len(transactions) = 1

\* ------------------------------------------- claims: the order of a run

\* C25 as stated: a run that went through save_to_db and export_to_json and
\* wrote the export of its transactions has aggregated exactly once when it
\* returns.
C25_AggregatesOnce ==
  [][(pc = "export" /\ pc' = "done" /\ transactions # <<>>
        /\ dashboard' # dashboard)
       => aggregations' = 1]_vars

\* The steps of a run: the loop goes through the batch one message after
\* the other; the tables change only in save_to_db, once the loop is over;
\* calculate_stats is called only in save_to_db and in export_to_json, once
\* in each at most, and the transactions it reads are all those of the loop.
C25_Step ==
  /\ (pc = "loop" /\ idx' # idx) => (idx' = idx + 1 /\ messages' = messages)
  /\ (db_transactions' # db_transactions \/ db_stats' # db_stats)
       => (pc = "save" /\ idx = Len(messages) + 1)
  /\ aggregations' > aggregations
       => /\ pc \in {"save", "export"}
          /\ idx = Len(messages) + 1
          /\ aggregations' = aggregations + 1
  /\ pc \in {"save", "export"} => transactions' = transactions

\* C25: messages are processed sequentially; no write of transactions or
\* stats to the store and no aggregation precedes the end of message
\* processing; a run aggregates once in save_to_db and once more in
\* export_to_json, two times at most, both over the same transactions, and
\* never when it has no transactions.
C25_AggregatesAfterLoop ==
  /\ [][C25_Step]_vars
  /\ [](/\ aggregations \in 0..2
        /\ (pc \in {"loop", "save", "except"} => aggregations = 0)
        /\ (aggregations > 0 => transactions # <<>>))

\* A run that wrote its rows and its export and called calculate_stats for
\* each of the two.
C25_Witness ==
  /\ pc = "done"
  /\ aggregations = 2
  /\ db_transactions # <<>>
  /\ dashboard.written

\* -------------------------------------- claims: the transactions API

\* C30: the id a successful POST returned keeps identifying that
\* transaction, whatever requests are made on other ids, until a DELETE of
\* the id: the id is a position of the list and the transaction there is
\* the one that was posted.
C30_IdsAreStable ==
  \A e \in api_issued :
    /\ e[1] < Len(api_transactions)
    /\ api_transactions[e[1] + 1].body = e[2]

====
